---- MODULE Spec2Model ----
(***************************************************************************)
(* Model of the PolyCalc front end and interpreter (src/parser.cc).        *)
(* The parser is a recursive-descent parser over the lexer's token stream; *)
(* every parse_X procedure of the source is an operator of the same name   *)
(* working on the tokens of one production, and every top-level step of    *)
(* ConsumeAllInput and main is an action.                                  *)
(***************************************************************************)
EXTENDS Integers, Sequences, FiniteSets, TLC

\* ------------------------------------------------------------------------
\* Bounds of the model
\* ------------------------------------------------------------------------
\* Width of the machine integer of the model (the program's int, scaled).
IntBits == 5
\* Capacity of the memory array of the model (the program's 1000, scaled).
MemSize == 4
\* Longest TASKS list, most declarations, statements and INPUTS values of the
\* programs explored; MaxExecStmts is the statement bound of SpecExec.
MaxTasks == 2
MaxDecls == 2
MaxStmts == 2
MaxExecStmts == 3
MaxInputs == 2

\* ------------------------------------------------------------------------
\* Machine integers: two's complement wraparound of int arithmetic
\* ------------------------------------------------------------------------
IntMod == 2 ^ IntBits
IntMax == (IntMod \div 2) - 1
IntMin == 0 - (IntMod \div 2)
WrapInt(v) == ((v - IntMin) % IntMod) + IntMin

\* ------------------------------------------------------------------------
\* Sequence helpers
\* ------------------------------------------------------------------------
Range(s) == { s[i] : i \in 1..Len(s) }

RECURSIVE InsertSorted(_, _)
InsertSorted(s, v) ==
    IF s = <<>> THEN <<v>>
    ELSE IF v < Head(s) THEN <<v>> \o s
    ELSE <<Head(s)>> \o InsertSorted(Tail(s), v)

\* std::sort on a vector<int>: ascending, duplicates kept.
RECURSIVE SortInts(_)
SortInts(s) == IF s = <<>> THEN <<>> ELSE InsertSorted(SortInts(Tail(s)), Head(s))

\* ------------------------------------------------------------------------
\* Tokens (the lexer's Token {token_type, lexeme, line_no})
\* ------------------------------------------------------------------------
Tok(tt, lx, ln) == [token_type |-> tt, lexeme |-> lx, line_no |-> ln]
EOFTok == Tok("END_OF_FILE", "", 0)

\* lexer.peek(k) with the next unread token at position p of toks; past the
\* tokens of the production the lexer answers END_OF_FILE.
Peek(toks, p, k) == IF p + k - 1 <= Len(toks) THEN toks[p + k - 1] ELSE EOFTok

\* atoi on the numerals the model draws its NUM tokens from.
Numerals == {"0", "1", "2", "3", "4", "5", "6", "15"}
atoi(lx) ==
    CASE lx = "0" -> 0 [] lx = "1" -> 1 [] lx = "2" -> 2 [] lx = "3" -> 3
      [] lx = "4" -> 4 [] lx = "5" -> 5 [] lx = "6" -> 6 [] lx = "15" -> 15

\* ------------------------------------------------------------------------
\* Expression AST
\* ------------------------------------------------------------------------
ConstExpr(v) == [type |-> "CONST_EXPR", value |-> v]
VarExpr(n, ln) == [type |-> "VAR_EXPR", name |-> n, line_no |-> ln]
AddExpr(l, r) == [type |-> "ADD_EXPR", left |-> l, right |-> r]
SubExpr(l, r) == [type |-> "SUB_EXPR", left |-> l, right |-> r]
MulExpr(l, r) == [type |-> "MUL_EXPR", left |-> l, right |-> r]
PowExpr(b, e) == [type |-> "POW_EXPR", base |-> b, exponent |-> e]
CallExpr(n, a) == [type |-> "CALL_EXPR", polyName |-> n, args |-> a]
NullExpr == [type |-> "NULL"]

\* ------------------------------------------------------------------------
\* Polynomial declaration parsing
\* A parse result: ok = FALSE is a call of syntax_error; pos is the next unread
\* token; inv is invalid_monomial_lines after the procedure.
\* ------------------------------------------------------------------------
PFail == [ok |-> FALSE, pos |-> 0, expr |-> NullExpr, inv |-> <<>>, wasParen |-> FALSE]
POk(p, e, inv, wp) == [ok |-> TRUE, pos |-> p, expr |-> e, inv |-> inv, wasParen |-> wp]

RECURSIVE parse_poly_body_expr(_, _, _, _)
RECURSIVE poly_term_loop(_, _, _)
RECURSIVE poly_body_plus_loop(_, _, _)

\* An identifier test that records the first invalid monomial only.
MonomialCheck_FirstOnly(idToken, params, inv) ==
    IF idToken.lexeme \in Range(params) \/ inv # <<>> THEN inv
    ELSE Append(inv, idToken.line_no)

\* The identifier test of parse_poly_factor: the line pushed on
\* invalid_monomial_lines for an identifier that is no parameter.
MonomialCheck(idToken, params, inv) ==
    IF idToken.lexeme \in Range(params) THEN inv ELSE Append(inv, idToken.line_no)

\* expect(RPAREN) after the body b of a parenthesized factor.
CloseParen(toks, b) ==
    IF b.ok /\ Peek(toks, b.pos, 1).token_type = "RPAREN"
    THEN POk(b.pos + 1, b.expr, b.inv, TRUE)
    ELSE PFail

\* The first part of parse_poly_factor: NUM, ID or a parenthesized body.
poly_factor_atom(toks, p, params, inv) ==
    LET t == Peek(toks, p, 1)
    IN  IF t.token_type = "NUM" THEN POk(p + 1, ConstExpr(atoi(t.lexeme)), inv, FALSE)
        ELSE IF t.token_type = "ID" THEN
            POk(p + 1, VarExpr(t.lexeme, t.line_no), MonomialCheck(t, params, inv), FALSE)
        ELSE IF t.token_type = "LPAREN" THEN
            CloseParen(toks, parse_poly_body_expr(toks, p + 1, params, inv))
        ELSE PFail

\* The second part of parse_poly_factor: '^' NUM, or the test for a numeral
\* after a parenthesis (in_poly_decl is true throughout a declaration body).
poly_factor_power(toks, atom) ==
    IF ~atom.ok THEN PFail
    ELSE IF Peek(toks, atom.pos, 1).token_type = "POWER" THEN
        IF Peek(toks, atom.pos, 2).token_type = "NUM"
        THEN POk(atom.pos + 2,
                 PowExpr(atom.expr, atoi(Peek(toks, atom.pos, 2).lexeme)), atom.inv, FALSE)
        ELSE PFail
    ELSE IF atom.wasParen /\ Peek(toks, atom.pos, 1).token_type = "NUM" THEN PFail
    ELSE atom

parse_poly_factor(toks, p, params, inv) ==
    poly_factor_power(toks, poly_factor_atom(toks, p, params, inv))

\* left = new MulExpr(left, right) / AddExpr / SubExpr after parsing right.
Combine(kind, left, right) ==
    IF ~right.ok THEN PFail
    ELSE POk(right.pos, [type |-> kind, left |-> left.expr, right |-> right.expr],
             right.inv, FALSE)

\* while (peek is ID or LPAREN) left = Mul(left, parse_poly_factor())
poly_term_loop(toks, left, params) ==
    IF ~left.ok THEN PFail
    ELSE IF Peek(toks, left.pos, 1).token_type \in {"ID", "LPAREN"} THEN
        poly_term_loop(toks,
            Combine("MUL_EXPR", left, parse_poly_factor(toks, left.pos, params, left.inv)),
            params)
    ELSE left

\* The first factor of parse_poly_term.
poly_term_first(toks, p, params, inv) ==
    LET t == Peek(toks, p, 1)
    IN  IF t.token_type = "NUM" THEN POk(p + 1, ConstExpr(atoi(t.lexeme)), inv, FALSE)
        ELSE IF t.token_type \in {"ID", "LPAREN"} THEN parse_poly_factor(toks, p, params, inv)
        ELSE PFail

parse_poly_term(toks, p, params, inv) ==
    poly_term_loop(toks, poly_term_first(toks, p, params, inv), params)

\* while (peek is PLUS) left = Add(left, parse_poly_term())
poly_body_plus_loop(toks, left, params) ==
    IF ~left.ok THEN PFail
    ELSE IF Peek(toks, left.pos, 1).token_type = "PLUS" THEN
        poly_body_plus_loop(toks,
            Combine("ADD_EXPR", left, parse_poly_term(toks, left.pos + 1, params, left.inv)),
            params)
    ELSE left

\* A body parser in which subtraction is iterated like addition.
RECURSIVE poly_body_minus_LeftAssoc(_, _, _)
poly_body_minus_LeftAssoc(toks, left, params) ==
    IF ~left.ok THEN PFail
    ELSE IF Peek(toks, left.pos, 1).token_type = "MINUS" THEN
        poly_body_minus_LeftAssoc(toks,
            poly_body_plus_loop(toks,
                Combine("SUB_EXPR", left,
                        parse_poly_term(toks, left.pos + 1, params, left.inv)),
                params),
            params)
    ELSE left

\* if (peek is MINUS) left = Sub(left, parse_poly_body_expr())
poly_body_minus(toks, left, params) ==
    IF ~left.ok THEN PFail
    ELSE IF Peek(toks, left.pos, 1).token_type = "MINUS" THEN
        Combine("SUB_EXPR", left, parse_poly_body_expr(toks, left.pos + 1, params, left.inv))
    ELSE left

parse_poly_body_expr(toks, p, params, inv) ==
    poly_body_minus(toks,
        poly_body_plus_loop(toks, parse_poly_term(toks, p, params, inv), params), params)

\* parse_id_list: ID (COMMA ID)*, from position p; ids is the list so far.
RECURSIVE id_list_loop(_, _, _)
id_list_loop(toks, p, ids) ==
    IF Peek(toks, p, 1).token_type = "COMMA" THEN
        IF Peek(toks, p, 2).token_type = "ID"
        THEN id_list_loop(toks, p + 2, Append(ids, Peek(toks, p, 2).lexeme))
        ELSE [ok |-> FALSE, pos |-> 0, ids |-> <<>>]
    ELSE [ok |-> TRUE, pos |-> p, ids |-> ids]

parse_id_list(toks, p) ==
    IF Peek(toks, p, 1).token_type = "ID"
    THEN id_list_loop(toks, p + 1, <<Peek(toks, p, 1).lexeme>>)
    ELSE [ok |-> FALSE, pos |-> 0, ids |-> <<>>]

\* The PolyHeader {name, line, params} of a declaration.
PolyHeader(n, ln, ps) == [name |-> n, line |-> ln, params |-> ps]
HFail == [ok |-> FALSE, pos |-> 0, header |-> PolyHeader("", 0, <<>>)]

\* A parse_poly_header that gives a header without a list no parameter.
parse_poly_header_NoDefault(toks, p) ==
    LET t == Peek(toks, p, 1)
    IN  IF t.token_type # "ID" THEN HFail
        ELSE IF Peek(toks, p, 2).token_type = "LPAREN" THEN
            LET l == parse_id_list(toks, p + 2)
            IN  IF l.ok /\ Peek(toks, l.pos, 1).token_type = "RPAREN"
                THEN [ok |-> TRUE, pos |-> l.pos + 1,
                      header |-> PolyHeader(t.lexeme, t.line_no, l.ids)]
                ELSE HFail
        ELSE [ok |-> TRUE, pos |-> p + 1,
              header |-> PolyHeader(t.lexeme, t.line_no, <<>>)]

parse_poly_header(toks, p) ==
    LET t == Peek(toks, p, 1)
    IN  IF t.token_type # "ID" THEN HFail
        ELSE IF Peek(toks, p, 2).token_type = "LPAREN" THEN
            LET l == parse_id_list(toks, p + 2)
            IN  IF l.ok /\ Peek(toks, l.pos, 1).token_type = "RPAREN"
                THEN [ok |-> TRUE, pos |-> l.pos + 1,
                      header |-> PolyHeader(t.lexeme, t.line_no, l.ids)]
                ELSE HFail
        ELSE [ok |-> TRUE, pos |-> p + 1,
              header |-> PolyHeader(t.lexeme, t.line_no, <<"x">>)]

\* ------------------------------------------------------------------------
\* Execution-section parsing: calls and their arguments
\* A semantic error string "Semantic Error Code N: <line>" is the pair of its
\* label (the text up to and including the first ':' after the code) and the
\* number to_string() wrote and stoi() reads back.
\* ------------------------------------------------------------------------
Code3 == "Semantic Error Code 3:"
Code4 == "Semantic Error Code 4:"
SemErr(label, ln) == [label |-> label, num |-> ln]

CFail == [ok |-> FALSE, pos |-> 0, expr |-> NullExpr, errs |-> <<>>]
COk(p, e, errs) == [ok |-> TRUE, pos |-> p, expr |-> e, errs |-> errs]
AFail == [ok |-> FALSE, pos |-> 0, args |-> <<>>, errs |-> <<>>]

\* The declaration check made after a call's closing parenthesis: what is
\* pushed on semantic_errors for a call of polyName with nargs arguments.
CallCheck(decls, polyName, nargs, eval_line, errs) ==
    IF polyName \in DOMAIN decls THEN
        IF nargs # Len(decls[polyName])
        THEN Append(errs, SemErr(Code4, eval_line))
        ELSE errs
    ELSE Append(errs, SemErr(Code3, eval_line))

RECURSIVE parse_argument_expr(_, _, _, _)
RECURSIVE call_args_loop(_, _, _, _, _)

\* args.push_back(parse_argument_expr()); while (peek is COMMA) ...; from the
\* token after LPAREN.  first is TRUE before the first argument.
call_args_loop(toks, p, decls, acc, first) ==
    IF first \/ Peek(toks, p, 1).token_type = "COMMA" THEN
        LET a == parse_argument_expr(toks, IF first THEN p ELSE p + 1, decls, acc.errs)
        IN  IF ~a.ok THEN AFail
            ELSE call_args_loop(toks, a.pos, decls,
                     [ok |-> TRUE, pos |-> a.pos, args |-> Append(acc.args, a.expr),
                      errs |-> a.errs], FALSE)
    ELSE [acc EXCEPT !.pos = p]

\* The part of a call after its name: LPAREN args RPAREN and the check.
\* idToken is the consumed name, p the position of the LPAREN.
parse_call_expr_from_token(idToken, toks, p, decls, errs) ==
    IF Peek(toks, p, 1).token_type # "LPAREN" THEN CFail
    ELSE LET a == call_args_loop(toks, p + 1, decls,
                      [ok |-> TRUE, pos |-> p + 1, args |-> <<>>, errs |-> errs], TRUE)
         IN  IF a.ok /\ Peek(toks, a.pos, 1).token_type = "RPAREN"
             THEN COk(a.pos + 1, CallExpr(idToken.lexeme, a.args),
                      CallCheck(decls, idToken.lexeme, Len(a.args), idToken.line_no, a.errs))
             ELSE CFail

parse_argument_expr(toks, p, decls, errs) ==
    LET t == Peek(toks, p, 1)
    IN  IF t.token_type = "ID" THEN
            IF Peek(toks, p, 2).token_type = "LPAREN"
            THEN parse_call_expr_from_token(t, toks, p + 1, decls, errs)
            ELSE COk(p + 1, VarExpr(t.lexeme, t.line_no), errs)
        ELSE IF t.token_type = "NUM" THEN COk(p + 1, ConstExpr(atoi(t.lexeme)), errs)
        ELSE CFail

\* parse_poly_eval_expr: expect(ID), then the same text as
\* parse_call_expr_from_token.
parse_poly_eval_expr(toks, p, decls, errs) ==
    LET t == Peek(toks, p, 1)
    IN  IF t.token_type # "ID" THEN CFail
        ELSE parse_call_expr_from_token(t, toks, p + 1, decls, errs)

\* ------------------------------------------------------------------------
\* Statements
\* ------------------------------------------------------------------------
InputStmt(v) == [type |-> "INPUT_STMT", var |-> v, line_no |-> 0, rhs |-> NullExpr]
OutputStmt(v) == [type |-> "OUTPUT_STMT", var |-> v, line_no |-> 0, rhs |-> NullExpr]
AssignStmt(v, ln, e) == [type |-> "ASSIGN_STMT", var |-> v, line_no |-> ln, rhs |-> e]

SFail == [ok |-> FALSE, pos |-> 0, stmt |-> InputStmt(""), errs |-> <<>>]

parse_input_statement_exec(toks, errs) ==
    IF /\ Peek(toks, 1, 1).token_type = "INPUT"
       /\ Peek(toks, 2, 1).token_type = "ID"
       /\ Peek(toks, 3, 1).token_type = "SEMICOLON"
    THEN [ok |-> TRUE, pos |-> 4, stmt |-> InputStmt(toks[2].lexeme), errs |-> errs]
    ELSE SFail

parse_output_statement_exec(toks, errs) ==
    IF /\ Peek(toks, 1, 1).token_type = "OUTPUT"
       /\ Peek(toks, 2, 1).token_type = "ID"
       /\ Peek(toks, 3, 1).token_type = "SEMICOLON"
    THEN [ok |-> TRUE, pos |-> 4, stmt |-> OutputStmt(toks[2].lexeme), errs |-> errs]
    ELSE SFail

parse_assign_statement_exec(toks, decls, errs) ==
    LET t == Peek(toks, 1, 1)
    IN  IF t.token_type = "ID" /\ Peek(toks, 2, 1).token_type = "EQUAL" THEN
            LET c == parse_poly_eval_expr(toks, 3, decls, errs)
            IN  IF c.ok /\ Peek(toks, c.pos, 1).token_type = "SEMICOLON"
                THEN [ok |-> TRUE, pos |-> c.pos + 1,
                      stmt |-> AssignStmt(t.lexeme, t.line_no, c.expr), errs |-> c.errs]
                ELSE SFail
        ELSE SFail

parse_statement_exec(toks, decls, errs) ==
    LET t == Peek(toks, 1, 1)
    IN  IF t.token_type = "INPUT" THEN parse_input_statement_exec(toks, errs)
        ELSE IF t.token_type = "OUTPUT" THEN parse_output_statement_exec(toks, errs)
        ELSE IF t.token_type = "ID" THEN parse_assign_statement_exec(toks, decls, errs)
        ELSE SFail

\* ------------------------------------------------------------------------
\* State
\* ------------------------------------------------------------------------
VARIABLES
    pc,                     \* position in ConsumeAllInput / main; after the end
                            \* of the process, how it ended
    status,                 \* exit status of the process, -1 while it runs
    out,                    \* the lines written to cout
    line,                   \* line of the last token the lexer delivered
    taskInput,              \* the tokens of the TASKS section, as read
    declInput,              \* the tokens of each parsed declaration, as read
    eofSeen,                \* the lexer has delivered END_OF_FILE to expect()
    lastInput,              \* the tokens of the production read last
    runTask2, runTask3, runTask4, runTask5,
    poly_declarations, poly_decl_first_line, polyExprs, current_poly_params,
    duplicate_decl_lines, invalid_monomial_lines, semantic_errors,
    execStatements, execInputs,
    nextInputIndex, execSymbolTable, mem,
    ip                      \* statements execute_program has executed

ctlVars == <<pc, status, out, line>>
ghostVars == <<taskInput, declInput, eofSeen>>
flagVars == <<runTask2, runTask3, runTask4, runTask5>>
tableVars == <<poly_declarations, poly_decl_first_line, polyExprs, current_poly_params>>
findingVars == <<duplicate_decl_lines, invalid_monomial_lines, semantic_errors>>
progVars == <<execStatements, execInputs>>
runVars == <<nextInputIndex, execSymbolTable, mem, ip>>
vars == <<ctlVars, ghostVars, lastInput, flagVars, tableVars, findingVars, progVars,
          runVars>>

EmptyMap == [n \in {} |-> 0]

\* One line of output: the text before the numbers, and the numbers.
OutLine(label, nums) == [label |-> label, nums |-> nums]
SyntaxErrorLine == OutLine("SYNTAX ERROR !!!!!&%!!", <<>>)

\* ------------------------------------------------------------------------
\* Expression evaluation
\* ------------------------------------------------------------------------
RECURSIVE PowLoop(_, _, _)
\* for (i = 0; i < exponent; i++) res *= bval;
PowLoop(res, bval, n) == IF n <= 0 THEN res ELSE PowLoop(WrapInt(res * bval), bval, n - 1)

\* An evaluatePolyCall that binds every parameter to the first argument.
BindParams_First(params, args) ==
    [n \in Range(params) |-> IF args # <<>> THEN args[1] ELSE 0]

\* The environment evaluatePolyCall builds: env[params[i]] = args[i] (0 when
\* the argument is missing), a later parameter of the same name overwriting.
BindParams(params, args) ==
    [n \in Range(params) |->
        LET i == CHOOSE k \in 1..Len(params) :
                     /\ params[k] = n
                     /\ \A m \in 1..Len(params) : params[m] = n => m <= k
        IN  IF i <= Len(args) THEN args[i] ELSE 0]

RECURSIVE evaluate(_, _)

evaluatePolyCall(polyName, args) ==
    IF polyName \notin DOMAIN poly_declarations \/ polyName \notin DOMAIN polyExprs
    THEN 0
    ELSE evaluate(polyExprs[polyName], BindParams(poly_declarations[polyName], args))

evaluate(e, env) ==
    CASE e.type = "CONST_EXPR" -> e.value
      [] e.type = "VAR_EXPR" -> IF e.name \in DOMAIN env THEN env[e.name] ELSE 0
      [] e.type = "ADD_EXPR" -> WrapInt(evaluate(e.left, env) + evaluate(e.right, env))
      [] e.type = "SUB_EXPR" -> WrapInt(evaluate(e.left, env) - evaluate(e.right, env))
      [] e.type = "MUL_EXPR" -> WrapInt(evaluate(e.left, env) * evaluate(e.right, env))
      [] e.type = "POW_EXPR" -> PowLoop(1, evaluate(e.base, env), e.exponent)
      [] e.type = "CALL_EXPR" ->
            evaluatePolyCall(e.polyName,
                             [i \in 1..Len(e.args) |-> evaluate(e.args[i], env)])

\* ------------------------------------------------------------------------
\* Statement execution
\* ------------------------------------------------------------------------
\* An allocation that numbers the slots from 1.
EnsureSlot_FromOne(table, var) ==
    IF var \in DOMAIN table THEN table
    ELSE table @@ (var :> (Cardinality(DOMAIN table) + 1))

\* if (execSymbolTable.find(var) == end) execSymbolTable[var] = size();
EnsureSlot(table, var) ==
    IF var \in DOMAIN table THEN table ELSE table @@ (var :> Cardinality(DOMAIN table))

\* The environment AssignStmt::execute builds from the symbol table.
AssignEnv(table, m) == [n \in DOMAIN table |-> m[table[n]]]

\* What a read of execInputs[idx] (0-based) can give: the value, or, past the
\* end of the vector, whatever the memory there holds.
GarbageInts == {0, IntMin}
\* A read that advances the cursor before it reads.
ReadInput_Next(inputs, idx) ==
    IF idx + 1 < Len(inputs) THEN {inputs[idx + 2]} ELSE GarbageInts
ReadInput(inputs, idx) == IF idx < Len(inputs) THEN {inputs[idx + 1]} ELSE GarbageInts

\* ------------------------------------------------------------------------
\* Semantic gate
\* ------------------------------------------------------------------------
Code1 == "Semantic Error Code 1:"
Code2 == "Semantic Error Code 2:"

\* lines.push_back(stoi(err.substr(pos + 1))) for every err of semantic_errors
ErrNums(errs) == [i \in 1..Len(errs) |-> errs[i].num]

\* The lines check_semantic_errors prints; <<>> when it returns without exit.
check_semantic_errors(dup, inv, errs) ==
    IF dup # <<>> THEN <<OutLine(Code1, SortInts(dup))>>
    ELSE IF inv # <<>> THEN <<OutLine(Code2, SortInts(inv))>>
    ELSE IF errs # <<>> THEN
        IF errs[1].label = Code3 THEN <<OutLine(Code3, SortInts(ErrNums(errs)))>>
        ELSE IF errs[1].label = Code4 THEN <<OutLine(Code4, SortInts(ErrNums(errs)))>>
        ELSE [i \in 1..Len(errs) |-> OutLine(errs[i].label, <<errs[i].num>>)]
    ELSE <<>>

\* ------------------------------------------------------------------------
\* Static analyses
\* ------------------------------------------------------------------------
RECURSIVE check_expr_for_uninit(_, _, _)
RECURSIVE uninit_args(_, _, _, _)
uninit_args(args, i, initVars, warnings) ==
    IF i > Len(args) THEN warnings
    ELSE uninit_args(args, i + 1, initVars,
                     check_expr_for_uninit(args[i], initVars, warnings))

check_expr_for_uninit(e, initVars, warnings) ==
    CASE e.type = "CONST_EXPR" -> warnings
      [] e.type = "VAR_EXPR" ->
            IF e.name \notin initVars THEN Append(warnings, e.line_no) ELSE warnings
      [] e.type \in {"ADD_EXPR", "SUB_EXPR", "MUL_EXPR"} ->
            check_expr_for_uninit(e.right, initVars,
                                  check_expr_for_uninit(e.left, initVars, warnings))
      [] e.type = "POW_EXPR" -> check_expr_for_uninit(e.base, initVars, warnings)
      [] e.type = "CALL_EXPR" -> uninit_args(e.args, 1, initVars, warnings)
      [] OTHER -> warnings

RECURSIVE exprUsesVar(_, _)
exprUsesVar(e, var) ==
    CASE e.type = "CONST_EXPR" -> FALSE
      [] e.type = "VAR_EXPR" -> e.name = var
      [] e.type \in {"ADD_EXPR", "SUB_EXPR", "MUL_EXPR"} ->
            exprUsesVar(e.left, var) \/ exprUsesVar(e.right, var)
      [] e.type = "POW_EXPR" -> exprUsesVar(e.base, var)
      [] e.type = "CALL_EXPR" -> \E i \in 1..Len(e.args) : exprUsesVar(e.args[i], var)
      [] OTHER -> FALSE

\* An inner loop in which a later assignment to var never counts as a use.
RECURSIVE useless_scan_NoSelfUse(_, _, _)
useless_scan_NoSelfUse(stmts, j, var) ==
    IF j > Len(stmts) THEN FALSE
    ELSE LET s == stmts[j]
         IN  IF s.var = var THEN s.type = "OUTPUT_STMT"
             ELSE IF s.type = "ASSIGN_STMT" /\ exprUsesVar(s.rhs, var) THEN TRUE
             ELSE useless_scan_NoSelfUse(stmts, j + 1, var)

\* The inner loop of checkUselessAssignments from statement j on: whether the
\* assignment to var is found used.
RECURSIVE useless_scan(_, _, _)
useless_scan(stmts, j, var) ==
    IF j > Len(stmts) THEN FALSE
    ELSE LET s == stmts[j]
         IN  IF s.type = "ASSIGN_STMT" /\ s.var = var THEN exprUsesVar(s.rhs, var)
             ELSE IF s.type = "INPUT_STMT" /\ s.var = var THEN FALSE
             ELSE IF s.type = "OUTPUT_STMT" /\ s.var = var THEN TRUE
             ELSE IF s.type = "ASSIGN_STMT" /\ s.var # var /\ exprUsesVar(s.rhs, var) THEN TRUE
             ELSE useless_scan(stmts, j + 1, var)

RECURSIVE useless_lines(_, _)
useless_lines(stmts, i) ==
    IF i > Len(stmts) THEN <<>>
    ELSE IF stmts[i].type = "ASSIGN_STMT" /\ ~useless_scan(stmts, i + 1, stmts[i].var)
         THEN <<stmts[i].line_no>> \o useless_lines(stmts, i + 1)
         ELSE useless_lines(stmts, i + 1)

\* The lines checkUselessAssignments prints.
checkUselessAssignments(stmts) ==
    LET uselessLines == useless_lines(stmts, 1)
    IN  IF uselessLines # <<>> THEN <<OutLine("Warning Code 2:", SortInts(uselessLines))>>
        ELSE <<>>

\* A scan that adds the target of an assignment before it checks the
\* right-hand side.
RECURSIVE uninit_scan_TargetFirst(_, _, _, _)
uninit_scan_TargetFirst(stmts, i, initializedVars, warningLines) ==
    IF i > Len(stmts) THEN warningLines
    ELSE IF stmts[i].type = "ASSIGN_STMT"
    THEN uninit_scan_TargetFirst(stmts, i + 1, initializedVars \cup {stmts[i].var},
             check_expr_for_uninit(stmts[i].rhs, initializedVars \cup {stmts[i].var},
                                   warningLines))
    ELSE IF stmts[i].type = "INPUT_STMT"
    THEN uninit_scan_TargetFirst(stmts, i + 1, initializedVars \cup {stmts[i].var},
                                 warningLines)
    ELSE uninit_scan_TargetFirst(stmts, i + 1, initializedVars, warningLines)

RECURSIVE uninit_scan(_, _, _, _)
uninit_scan(stmts, i, initializedVars, warningLines) ==
    IF i > Len(stmts) THEN warningLines
    ELSE LET s == stmts[i]
         IN  IF s.type = "INPUT_STMT"
             THEN uninit_scan(stmts, i + 1, initializedVars \cup {s.var}, warningLines)
             ELSE IF s.type = "ASSIGN_STMT"
             THEN uninit_scan(stmts, i + 1, initializedVars \cup {s.var},
                              check_expr_for_uninit(s.rhs, initializedVars, warningLines))
             ELSE uninit_scan(stmts, i + 1, initializedVars, warningLines)

\* The lines checkUninitializedWarnings prints.
checkUninitializedWarnings(stmts) ==
    LET warningLines == uninit_scan(stmts, 1, {}, <<>>)
    IN  IF warningLines # <<>> THEN <<OutLine("Warning Code 1:", SortInts(warningLines))>>
        ELSE <<>>

Max(a, b) == IF a >= b THEN a ELSE b
\* A degree in which a power adds its exponent.
RECURSIVE computeDegree_PowAdds(_)
computeDegree_PowAdds(e) ==
    CASE e.type = "VAR_EXPR" -> 1
      [] e.type \in {"ADD_EXPR", "SUB_EXPR"} ->
            Max(computeDegree_PowAdds(e.left), computeDegree_PowAdds(e.right))
      [] e.type = "MUL_EXPR" ->
            WrapInt(computeDegree_PowAdds(e.left) + computeDegree_PowAdds(e.right))
      [] e.type = "POW_EXPR" -> WrapInt(computeDegree_PowAdds(e.base) + e.exponent)
      [] OTHER -> 0

RECURSIVE computeDegree(_)
computeDegree(e) ==
    CASE e.type = "CONST_EXPR" -> 0
      [] e.type = "VAR_EXPR" -> 1
      [] e.type \in {"ADD_EXPR", "SUB_EXPR"} ->
            Max(computeDegree(e.left), computeDegree(e.right))
      [] e.type = "MUL_EXPR" -> WrapInt(computeDegree(e.left) + computeDegree(e.right))
      [] e.type = "POW_EXPR" -> WrapInt(computeDegree(e.base) * e.exponent)
      [] e.type = "CALL_EXPR" -> 0
      [] OTHER -> 0

\* operator< on the polynomial names of the model (std::string comparison).
NameRank(n) == CASE n = "f" -> 1 [] n = "g" -> 2 [] n = "h" -> 3 [] OTHER -> 4

\* sort(polyOrder): the names of firstLine by (first line, name) ascending.
RECURSIVE poly_order(_, _)
poly_order(firstLine, names) ==
    IF names = {} THEN <<>>
    ELSE LET n == CHOOSE a \in names : \A b \in names :
                      \/ firstLine[a] < firstLine[b]
                      \/ firstLine[a] = firstLine[b] /\ NameRank(a) <= NameRank(b)
         IN  <<n>> \o poly_order(firstLine, names \ {n})

\* The lines outputPolynomialDegrees prints.
outputPolynomialDegrees(firstLine, exprs) ==
    LET polyOrder == poly_order(firstLine, DOMAIN firstLine)
    IN  [i \in 1..Len(polyOrder) |->
            OutLine(polyOrder[i] \o ":", <<computeDegree(exprs[polyOrder[i]])>>)]

\* ------------------------------------------------------------------------
\* Init: the globals as their initializers leave them, the parser at the
\* start of ConsumeAllInput
\* ------------------------------------------------------------------------
Init ==
    /\ pc = "tasks" /\ status = -1 /\ out = <<>> /\ line = 0
    /\ taskInput = <<>> /\ declInput = <<>> /\ eofSeen = FALSE /\ lastInput = <<>>
    /\ runTask2 = FALSE /\ runTask3 = FALSE /\ runTask4 = FALSE /\ runTask5 = FALSE
    /\ poly_declarations = EmptyMap /\ poly_decl_first_line = EmptyMap
    /\ polyExprs = EmptyMap /\ current_poly_params = <<>>
    /\ duplicate_decl_lines = <<>> /\ invalid_monomial_lines = <<>>
    /\ semantic_errors = <<>>
    /\ execStatements = <<>> /\ execInputs = <<>>
    /\ nextInputIndex = 0 /\ execSymbolTable = EmptyMap
    /\ mem = [i \in 0..(MemSize - 1) |-> 0]
    /\ ip = 0

\* Line of the last token of a production.
LastLine(toks) == toks[Len(toks)].line_no

\* Parser::syntax_error: print the fixed line and exit(1).  The action that
\* calls it says what was read.
syntax_error ==
    /\ out' = Append(out, SyntaxErrorLine)
    /\ status' = 1
    /\ pc' = "exit_syntax"
    /\ UNCHANGED <<line, ghostVars, flagVars, tableVars, findingVars, progVars, runVars>>

\* ------------------------------------------------------------------------
\* TASKS section
\* ------------------------------------------------------------------------
TaskFlags(t2, t3, t4, t5) == [t2 |-> t2, t3 |-> t3, t4 |-> t4, t5 |-> t5]
NFail == [ok |-> FALSE, pos |-> 0, flags |-> TaskFlags(FALSE, FALSE, FALSE, FALSE)]

\* A parse_num_list in which a task number flips its flag.
SetTask_Toggle(flags, task) ==
    TaskFlags(flags.t2 # (task = 2), flags.t3 # (task = 3),
              flags.t4 # (task = 4), flags.t5 # (task = 5))

\* The flags after one task number of parse_num_list.
SetTask(flags, task) ==
    TaskFlags(flags.t2 \/ task = 2, flags.t3 \/ task = 3,
              flags.t4 \/ task = 4, flags.t5 \/ task = 5)

RECURSIVE parse_num_list(_, _, _)
parse_num_list(toks, p, flags) ==
    LET t == Peek(toks, p, 1)
    IN  IF t.token_type # "NUM" THEN NFail
        ELSE LET f == SetTask(flags, atoi(t.lexeme))
             IN  IF Peek(toks, p + 1, 1).token_type = "NUM"
                 THEN parse_num_list(toks, p + 1, f)
                 ELSE [ok |-> TRUE, pos |-> p + 1, flags |-> f]

\* parse_tasks_section on the tokens up to the first that is no task number.
parse_tasks_section(toks) ==
    /\ pc = "tasks"
    /\ lastInput' = toks
    /\ LET r == IF Peek(toks, 1, 1).token_type = "TASKS"
                THEN parse_num_list(toks, 2, TaskFlags(runTask2, runTask3, runTask4, runTask5))
                ELSE NFail
       IN  IF r.ok THEN
               /\ r.pos = Len(toks) + 1
               /\ runTask2' = r.flags.t2 /\ runTask3' = r.flags.t3
               /\ runTask4' = r.flags.t4 /\ runTask5' = r.flags.t5
               /\ taskInput' = toks
               /\ line' = LastLine(toks)
               /\ pc' = "poly"
               /\ UNCHANGED <<status, out, declInput, eofSeen, tableVars, findingVars,
                              progVars, runVars>>
           ELSE syntax_error

\* ------------------------------------------------------------------------
\* POLY section
\* ------------------------------------------------------------------------
\* expect(kw) at the head of a section, on the token tok the lexer delivers.
expect_section(at, kw, tok, next) ==
    /\ pc = at
    /\ lastInput' = <<tok>>
    /\ IF tok.token_type = kw THEN
           /\ pc' = next
           /\ line' = tok.line_no
           /\ UNCHANGED <<status, out, ghostVars, flagVars, tableVars, findingVars,
                          progVars, runVars>>
       ELSE syntax_error

parse_poly_section(tok) == expect_section("poly", "POLY", tok, "poly_decl")

\* poly_declarations[header.name] = header.params, in parse_poly_header.
RecordParams(decls, header) ==
    [n \in DOMAIN decls \cup {header.name} |->
        IF n = header.name THEN header.params ELSE decls[n]]

\* A parse_poly_decl that records the line of the first declaration.
RecordDuplicate_FirstLine(firstLine, dup, header) ==
    IF header.name \in DOMAIN firstLine THEN Append(dup, firstLine[header.name]) ELSE dup

\* The end of parse_poly_decl: a repeated name records its line, a new name
\* its first line and its body.
RecordDuplicate(firstLine, dup, header) ==
    IF header.name \in DOMAIN firstLine THEN Append(dup, header.line) ELSE dup

RecordFirst(table, header, value) ==
    IF header.name \in DOMAIN table THEN table ELSE table @@ (header.name :> value)

\* parse_poly_decl on the tokens of one declaration (to its SEMICOLON).
parse_poly_decl(toks) ==
    /\ pc = "poly_decl"
    /\ lastInput' = toks
    /\ Peek(toks, 1, 1).token_type = "ID" \/ declInput = <<>>
    /\ LET h == parse_poly_header(toks, 1)
           b == IF h.ok /\ Peek(toks, h.pos, 1).token_type = "EQUAL"
                THEN parse_poly_body_expr(toks, h.pos + 1, h.header.params,
                                          invalid_monomial_lines)
                ELSE PFail
       IN  IF b.ok /\ Peek(toks, b.pos, 1).token_type = "SEMICOLON" THEN
               /\ b.pos = Len(toks)
               /\ poly_declarations' = RecordParams(poly_declarations, h.header)
               /\ current_poly_params' = h.header.params
               /\ invalid_monomial_lines' = b.inv
               /\ duplicate_decl_lines' =
                      RecordDuplicate(poly_decl_first_line, duplicate_decl_lines, h.header)
               /\ poly_decl_first_line' =
                      RecordFirst(poly_decl_first_line, h.header, h.header.line)
               /\ polyExprs' = RecordFirst(polyExprs, h.header, b.expr)
               /\ declInput' = Append(declInput, toks)
               /\ line' = LastLine(toks)
               /\ UNCHANGED <<pc, status, out, taskInput, eofSeen, flagVars,
                              semantic_errors, progVars, runVars>>
           ELSE syntax_error

\* ------------------------------------------------------------------------
\* EXECUTE section
\* ------------------------------------------------------------------------
\* The declaration list ends on a token that is no ID: expect(EXECUTE).
parse_execute_section(tok) ==
    /\ declInput # <<>>
    /\ tok.token_type # "ID"
    /\ expect_section("poly_decl", "EXECUTE", tok, "stmt")

\* parse_statement_list_exec: one statement, on its tokens (to its SEMICOLON).
parse_statement_list_exec(toks) ==
    /\ pc = "stmt"
    /\ lastInput' = toks
    /\ Peek(toks, 1, 1).token_type \in {"INPUT", "OUTPUT", "ID"} \/ execStatements = <<>>
    /\ LET r == parse_statement_exec(toks, poly_declarations, semantic_errors)
       IN  IF r.ok THEN
               /\ r.pos = Len(toks) + 1
               /\ execStatements' = Append(execStatements, r.stmt)
               /\ semantic_errors' = r.errs
               /\ line' = LastLine(toks)
               /\ UNCHANGED <<pc, status, out, ghostVars, flagVars, tableVars,
                              duplicate_decl_lines, invalid_monomial_lines,
                              execInputs, runVars>>
           ELSE syntax_error

\* ------------------------------------------------------------------------
\* INPUTS section and end of file
\* ------------------------------------------------------------------------
RECURSIVE inputs_loop(_, _, _)
\* while (peek is NUM) execInputs.push_back(atoi(lexeme))
inputs_loop(toks, p, inputs) ==
    IF Peek(toks, p, 1).token_type = "NUM"
    THEN inputs_loop(toks, p + 1, Append(inputs, atoi(toks[p].lexeme)))
    ELSE [pos |-> p, inputs |-> inputs]

\* The statement list ends on a token that starts no statement:
\* parse_inputs_section on the tokens up to the first that is no value.
parse_inputs_section(toks) ==
    /\ pc = "stmt"
    /\ lastInput' = toks
    /\ execStatements # <<>>
    /\ Peek(toks, 1, 1).token_type \notin {"INPUT", "OUTPUT", "ID"}
    /\ IF Peek(toks, 1, 1).token_type = "INPUTS" /\ Peek(toks, 2, 1).token_type = "NUM" THEN
           LET r == inputs_loop(toks, 2, execInputs)
           IN  /\ r.pos = Len(toks) + 1
               /\ execInputs' = r.inputs
               /\ line' = LastLine(toks)
               /\ pc' = "eof"
               /\ UNCHANGED <<status, out, ghostVars, flagVars, tableVars, findingVars,
                              execStatements, runVars>>
       ELSE syntax_error

\* A ConsumeAllInput that runs the semantic check before the end-of-file test.
expect_end_of_file_GateFirst(tok) ==
    /\ pc = "eof"
    /\ lastInput' = <<tok>>
    /\ pc' = "gate"
    /\ UNCHANGED <<status, out, line, ghostVars, flagVars, tableVars, findingVars,
                   progVars, runVars>>

\* ConsumeAllInput after parse_program: the end-of-file test and
\* expect(END_OF_FILE).
expect_end_of_file(tok) ==
    /\ pc = "eof"
    /\ lastInput' = <<tok>>
    /\ IF tok.token_type = "END_OF_FILE" THEN
           /\ pc' = "gate"
           /\ eofSeen' = TRUE
           /\ UNCHANGED <<status, out, line, taskInput, declInput, flagVars, tableVars,
                          findingVars, progVars, runVars>>
       ELSE syntax_error

\* ------------------------------------------------------------------------
\* The semantic gate, and main after it
\* ------------------------------------------------------------------------
\* A check_semantic_errors that prints and returns to main.
semantic_gate_NoExit ==
    /\ pc = "gate"
    /\ UNCHANGED lastInput
    /\ out' = out \o check_semantic_errors(duplicate_decl_lines, invalid_monomial_lines,
                                           semantic_errors)
    /\ pc' = "task2"
    /\ UNCHANGED <<status, line, ghostVars, flagVars, tableVars, findingVars, progVars,
                   runVars>>

\* check_semantic_errors at the end of ConsumeAllInput: print and exit(0), or
\* return to main.
semantic_gate ==
    /\ pc = "gate"
    /\ UNCHANGED lastInput
    /\ LET printed == check_semantic_errors(duplicate_decl_lines, invalid_monomial_lines,
                                            semantic_errors)
       IN  IF printed # <<>>
           THEN /\ out' = out \o printed
                /\ status' = 0
                /\ pc' = "exit_semantic"
           ELSE /\ pc' = "task2"
                /\ UNCHANGED <<status, out>>
    /\ UNCHANGED <<line, ghostVars, flagVars, tableVars, findingVars, progVars, runVars>>

\* One iteration of the loop of execute_program: InputStmt::execute.  A read
\* past the end of execInputs gives an arbitrary value or ends the process.
execute_input(s) ==
    LET table == EnsureSlot(execSymbolTable, s.var)
    IN  \/ \E v \in ReadInput(execInputs, nextInputIndex) :
              /\ execSymbolTable' = table
              /\ mem' = [mem EXCEPT ![table[s.var]] = v]
              /\ nextInputIndex' = nextInputIndex + 1
              /\ ip' = ip + 1
              /\ UNCHANGED <<pc, status, out>>
        \/ /\ nextInputIndex >= Len(execInputs)
           /\ pc' = "crashed"
           /\ status' = 139
           /\ execSymbolTable' = table
           /\ UNCHANGED <<out, mem, nextInputIndex, ip>>

\* OutputStmt::execute
execute_output(s) ==
    LET table == EnsureSlot(execSymbolTable, s.var)
    IN  /\ execSymbolTable' = table
        /\ out' = Append(out, OutLine("", <<mem[table[s.var]]>>))
        /\ ip' = ip + 1
        /\ UNCHANGED <<pc, status, mem, nextInputIndex>>

\* An AssignStmt::execute that also gives a slot to a variable it reads.
execute_assign_AllocArgs(s) ==
    LET target == EnsureSlot(execSymbolTable, s.var)
        table == IF s.rhs.args[1].type = "VAR_EXPR"
                 THEN EnsureSlot(target, s.rhs.args[1].name)
                 ELSE target
    IN  /\ execSymbolTable' = table
        /\ mem' = [mem EXCEPT ![table[s.var]] = evaluate(s.rhs, AssignEnv(table, mem))]
        /\ ip' = ip + 1
        /\ UNCHANGED <<pc, status, out, nextInputIndex>>

\* AssignStmt::execute
execute_assign(s) ==
    LET table == EnsureSlot(execSymbolTable, s.var)
    IN  /\ execSymbolTable' = table
        /\ mem' = [mem EXCEPT ![table[s.var]] = evaluate(s.rhs, AssignEnv(table, mem))]
        /\ ip' = ip + 1
        /\ UNCHANGED <<pc, status, out, nextInputIndex>>

\* if (runTask2) parser.execute_program(): one statement per step.
execute_program ==
    /\ pc = "task2"
    /\ runTask2
    /\ ip < Len(execStatements)
    /\ LET s == execStatements[ip + 1]
       IN  CASE s.type = "INPUT_STMT" -> execute_input(s)
             [] s.type = "OUTPUT_STMT" -> execute_output(s)
             [] s.type = "ASSIGN_STMT" -> execute_assign(s)
    /\ UNCHANGED <<line, ghostVars, lastInput, flagVars, tableVars, findingVars, progVars>>

\* main after task 2: the three analyses, each if selected, and return 0.
main_task3 ==
    /\ pc = "task2"
    /\ UNCHANGED lastInput
    /\ ~runTask2 \/ ip = Len(execStatements)
    /\ out' = IF runTask3 THEN out \o checkUninitializedWarnings(execStatements) ELSE out
    /\ pc' = "task4"
    /\ UNCHANGED <<status, line, ghostVars, flagVars, tableVars, findingVars, progVars,
                   runVars>>

main_task4 ==
    /\ pc = "task4"
    /\ UNCHANGED lastInput
    /\ out' = IF runTask4 THEN out \o checkUselessAssignments(execStatements) ELSE out
    /\ pc' = "task5"
    /\ UNCHANGED <<status, line, ghostVars, flagVars, tableVars, findingVars, progVars,
                   runVars>>

main_task5 ==
    /\ pc = "task5"
    /\ UNCHANGED lastInput
    /\ out' = IF runTask5
              THEN out \o outputPolynomialDegrees(poly_decl_first_line, polyExprs)
              ELSE out
    /\ status' = 0
    /\ pc' = "returned"
    /\ UNCHANGED <<line, ghostVars, flagVars, tableVars, findingVars, progVars, runVars>>

\* ------------------------------------------------------------------------
\* Program texts the lexer delivers
\* ------------------------------------------------------------------------
K(tt, ln) == Tok(tt, "", ln)
Id(n, ln) == Tok("ID", n, ln)
Num(lx, ln) == Tok("NUM", lx, ln)

\* TASKS n1 n2 ... on line ln
TasksToks(nums, ln) == <<K("TASKS", ln)>> \o [i \in 1..Len(nums) |-> Num(nums[i], ln)]
\* INPUTS v1 v2 ... on line ln
InputsToks(vals, ln) == <<K("INPUTS", ln)>> \o [i \in 1..Len(vals) |-> Num(vals[i], ln)]
\* The non-empty lists of at most n elements of S
ListsUpTo(S, n) == UNION { [1..k -> S] : k \in 1..n }

\* f(x) = x + 1;
DeclFx(ln) ==
    <<Id("f", ln), K("LPAREN", ln), Id("x", ln), K("RPAREN", ln), K("EQUAL", ln),
      Id("x", ln), K("PLUS", ln), Num("1", ln), K("SEMICOLON", ln)>>
\* f(x, y) = x - y;
DeclFxy(ln) ==
    <<Id("f", ln), K("LPAREN", ln), Id("x", ln), K("COMMA", ln), Id("y", ln),
      K("RPAREN", ln), K("EQUAL", ln), Id("x", ln), K("MINUS", ln), Id("y", ln),
      K("SEMICOLON", ln)>>
\* g(x, y) = x - y;
DeclGxy(ln) ==
    <<Id("g", ln), K("LPAREN", ln), Id("x", ln), K("COMMA", ln), Id("y", ln),
      K("RPAREN", ln), K("EQUAL", ln), Id("x", ln), K("MINUS", ln), Id("y", ln),
      K("SEMICOLON", ln)>>
\* g = y + x      (y is no parameter of g)
\*     z;         (nor is z, on the next line)
DeclGyz(ln) ==
    <<Id("g", ln), K("EQUAL", ln), Id("y", ln), K("PLUS", ln), Id("x", ln),
      Id("z", ln + 1), K("SEMICOLON", ln + 1)>>
\* g(y) = 2 y^2;
DeclGy(ln) ==
    <<Id("g", ln), K("LPAREN", ln), Id("y", ln), K("RPAREN", ln), K("EQUAL", ln),
      Num("2", ln), Id("y", ln), K("POWER", ln), Num("2", ln), K("SEMICOLON", ln)>>
\* f = (x) 2;     (a syntax error: a parenthesis followed by a numeral)
DeclParenNum(ln) ==
    <<Id("f", ln), K("EQUAL", ln), K("LPAREN", ln), Id("x", ln), K("RPAREN", ln),
      Num("2", ln), K("SEMICOLON", ln)>>

\* INPUT v;   OUTPUT v;
StInput(v, ln) == <<K("INPUT", ln), Id(v, ln), K("SEMICOLON", ln)>>
StOutput(v, ln) == <<K("OUTPUT", ln), Id(v, ln), K("SEMICOLON", ln)>>
\* v = p(a);
StCall1(v, p, a, ln) ==
    <<Id(v, ln), K("EQUAL", ln), Id(p, ln), K("LPAREN", ln), Id(a, ln), K("RPAREN", ln),
      K("SEMICOLON", ln)>>
\* v = p(a, b);
StCall2(v, p, a, b, ln) ==
    <<Id(v, ln), K("EQUAL", ln), Id(p, ln), K("LPAREN", ln), Id(a, ln), K("COMMA", ln),
      Id(b, ln), K("RPAREN", ln), K("SEMICOLON", ln)>>
\* v = p(1);
StCallNum(v, p, ln) ==
    <<Id(v, ln), K("EQUAL", ln), Id(p, ln), K("LPAREN", ln), Num("1", ln),
      K("RPAREN", ln), K("SEMICOLON", ln)>>
\* v = p(
\*       q(a, 1, 2));
StNested(v, p, q, a, ln) ==
    <<Id(v, ln), K("EQUAL", ln), Id(p, ln), K("LPAREN", ln),
      Id(q, ln + 1), K("LPAREN", ln + 1), Id(a, ln + 1), K("COMMA", ln + 1),
      Num("1", ln + 1), K("COMMA", ln + 1), Num("2", ln + 1), K("RPAREN", ln + 1),
      K("RPAREN", ln + 1), K("SEMICOLON", ln + 1)>>
\* v = p(q(a));
StNest1(v, p, q, a, ln) ==
    <<Id(v, ln), K("EQUAL", ln), Id(p, ln), K("LPAREN", ln), Id(q, ln), K("LPAREN", ln),
      Id(a, ln), K("RPAREN", ln), K("RPAREN", ln), K("SEMICOLON", ln)>>
\* v = p(b + 1);
StArgSum(v, p, b, ln) ==
    <<Id(v, ln), K("EQUAL", ln), Id(p, ln), K("LPAREN", ln), Id(b, ln), K("PLUS", ln),
      Num("1", ln), K("RPAREN", ln), K("SEMICOLON", ln)>>
\* v = a;         (a syntax error: the right-hand side is no call)
StNoCall(v, a, ln) == <<Id(v, ln), K("EQUAL", ln), Id(a, ln), K("SEMICOLON", ln)>>

\* ------------------------------------------------------------------------
\* Spec: programs with every kind of semantic finding and syntax error
\* ------------------------------------------------------------------------
GateTaskLists == {<<"2", "3", "4", "5">>, <<"1">>}
GateDecls(ln) == {DeclFx(ln), DeclFxy(ln), DeclGyz(ln), DeclGy(ln), DeclParenNum(ln)}
GateStmts(ln) ==
    {StInput("a", ln), StOutput("b", ln), StCall1("b", "f", "a", ln),
     StCallNum("b", "h", ln), StNested("b", "g", "f", "a", ln), StNoCall("b", "a", ln),
     StCall2("b", "g", "a", "a", ln)}
GateInputs(ln) == {InputsToks(<<"5">>, ln), <<K("INPUTS", ln), K("SEMICOLON", ln)>>}

Next ==
    \/ \E l \in GateTaskLists \cup {<<>>} : parse_tasks_section(TasksToks(l, line + 1))
    \/ \E kw \in {"POLY", "EXECUTE"} : parse_poly_section(K(kw, line + 1))
    \/ \E d \in GateDecls(line + 1) : Len(declInput) < MaxDecls /\ parse_poly_decl(d)
    \/ \E kw \in {"EXECUTE", "INPUTS"} : parse_execute_section(K(kw, line + 1))
    \/ \E s \in GateStmts(line + 1) :
          Len(execStatements) < MaxStmts /\ parse_statement_list_exec(s)
    \/ \E i \in GateInputs(line + 1) : parse_inputs_section(i)
    \/ \E kw \in {"END_OF_FILE", "SEMICOLON"} : expect_end_of_file(K(kw, line))
    \/ semantic_gate
    \/ execute_program
    \/ main_task3
    \/ main_task4
    \/ main_task5

Spec == Init /\ [][Next]_vars

\* ------------------------------------------------------------------------
\* SpecTasks: programs without findings under every list of task numbers
\* ------------------------------------------------------------------------
TaskNumerals == {"2", "3", "4", "5"}
\* f(x) = x + 1;  then  g(y) = 2 y^2;  then g again
NextDecl(ln) == IF declInput = <<>> THEN DeclFx(ln) ELSE DeclGy(ln)
\* b = f(c);  reads c before any value is given to it
TaskStmts(ln) == {StCall1("b", "f", "c", ln), StOutput("b", ln), StInput("c", ln)}
\* INPUTS 5 5 ...: a value for every statement
TaskInputs(ln) == InputsToks([i \in 1..MaxStmts |-> "5"], ln)

NextTasks ==
    \/ \E l \in ListsUpTo(TaskNumerals, MaxTasks) :
          parse_tasks_section(TasksToks(l, line + 1))
    \/ parse_poly_section(K("POLY", line + 1))
    \/ Len(declInput) < MaxDecls /\ parse_poly_decl(NextDecl(line + 1))
    \/ parse_execute_section(K("EXECUTE", line + 1))
    \/ \E s \in TaskStmts(line + 1) :
          Len(execStatements) < MaxStmts /\ parse_statement_list_exec(s)
    \/ parse_inputs_section(TaskInputs(line + 1))
    \/ expect_end_of_file(K("END_OF_FILE", line))
    \/ semantic_gate
    \/ execute_program
    \/ main_task3
    \/ main_task4
    \/ main_task5

SpecTasks == Init /\ [][NextTasks]_vars

\* ------------------------------------------------------------------------
\* SpecExec: task 2 on programs of Input, Output and call statements
\* ------------------------------------------------------------------------
\* f(x) = x + 1;  then  g(x, y) = x - y;  then g again
NextExecDecl(ln) == IF declInput = <<>> THEN DeclFx(ln) ELSE DeclGxy(ln)
ExecStmts(ln) ==
    {StInput("a", ln), StInput("b", ln), StOutput("b", ln),
     StCall1("b", "f", "a", ln), StCall2("b", "g", "a", "b", ln)}
\* INPUTS 5 6 4 ...: the k-th value differs from its neighbours
InputNumeral(k) == CASE k % 3 = 1 -> "5" [] k % 3 = 2 -> "6" [] OTHER -> "4"
ExecInputs(ln) == {InputsToks([i \in 1..k |-> InputNumeral(i)], ln) : k \in 1..MaxInputs}

NextExec ==
    \/ parse_tasks_section(TasksToks(<<"2">>, line + 1))
    \/ parse_poly_section(K("POLY", line + 1))
    \/ Len(declInput) < MaxDecls /\ parse_poly_decl(NextExecDecl(line + 1))
    \/ parse_execute_section(K("EXECUTE", line + 1))
    \/ \E s \in ExecStmts(line + 1) :
          Len(execStatements) < MaxExecStmts /\ parse_statement_list_exec(s)
    \/ \E i \in ExecInputs(line + 1) : parse_inputs_section(i)
    \/ expect_end_of_file(K("END_OF_FILE", line))
    \/ semantic_gate
    \/ execute_program
    \/ main_task3
    \/ main_task4
    \/ main_task5

SpecExec == Init /\ [][NextExec]_vars

\* ------------------------------------------------------------------------
\* SpecPoly: declarations with bodies of every form, tasks 2 and 5
\* ------------------------------------------------------------------------
\* The bodies of the declarations, as <<token type, lexeme>> pairs.
Body(k) ==
    LET P(tt) == <<tt, "">>
        X == <<"ID", "x">>
        N(lx) == <<"NUM", lx>>
    IN  CASE k = "(x+1)(x-1)" ->
                <<P("LPAREN"), X, P("PLUS"), N("1"), P("RPAREN"),
                  P("LPAREN"), X, P("MINUS"), N("1"), P("RPAREN")>>
          [] k = "x^3" -> <<X, P("POWER"), N("3")>>
          [] k = "2" -> <<N("2")>>
          [] k = "x^0" -> <<X, P("POWER"), N("0")>>
          [] k = "2 x x^2" -> <<N("2"), X, X, P("POWER"), N("2")>>
          [] k = "x-1-1" -> <<X, P("MINUS"), N("1"), P("MINUS"), N("1")>>
          [] k = "x+1+2" -> <<X, P("PLUS"), N("1"), P("PLUS"), N("2")>>
          [] k = "x-1+2" -> <<X, P("MINUS"), N("1"), P("PLUS"), N("2")>>
          [] k = "x+1-2" -> <<X, P("PLUS"), N("1"), P("MINUS"), N("2")>>
          [] k = "2^3" -> <<N("2"), P("POWER"), N("3")>>
          \* two identifiers that are no parameters, on one line
          [] k = "y z" -> <<<<"ID", "y">>, <<"ID", "z">>>>

PolyBodies ==
    {Body(k) : k \in {"(x+1)(x-1)", "x^3", "2", "x^0", "2 x x^2", "x-1-1", "x+1+2",
                      "x-1+2", "x+1-2", "2^3", "y z"}}

\* The k-th declaration of a program, with the given body, on line ln:
\* n = body;  with n = f, g, h, f, ...
DeclOf(k, body, ln) ==
    <<Id(CASE k % 3 = 1 -> "f" [] k % 3 = 2 -> "g" [] OTHER -> "h", ln), K("EQUAL", ln)>>
        \o [i \in 1..Len(body) |-> Tok(body[i][1], body[i][2], ln)]
        \o <<K("SEMICOLON", ln)>>
\* INPUT a;  b = f(a);  OUTPUT b;
PolyProgram(ln) == <<StInput("a", ln), StCall1("b", "f", "a", ln), StOutput("b", ln)>>

NextPoly ==
    \/ parse_tasks_section(TasksToks(<<"2", "5">>, line + 1))
    \/ parse_poly_section(K("POLY", line + 1))
    \/ \E b \in PolyBodies :
          /\ Len(declInput) < MaxDecls
          /\ parse_poly_decl(DeclOf(Len(declInput) + 1, b, line + 1))
    \/ parse_execute_section(K("EXECUTE", line + 1))
    \/ /\ Len(execStatements) < Len(PolyProgram(0))
       /\ parse_statement_list_exec(PolyProgram(line + 1)[Len(execStatements) + 1])
    \/ \E v \in {"1", "3"} :
          /\ Len(execStatements) = Len(PolyProgram(0))
          /\ parse_inputs_section(InputsToks(<<v>>, line + 1))
    \/ expect_end_of_file(K("END_OF_FILE", line))
    \/ semantic_gate
    \/ execute_program
    \/ main_task3
    \/ main_task4
    \/ main_task5

SpecPoly == Init /\ [][NextPoly]_vars

\* ------------------------------------------------------------------------
\* SpecWarn: the analyses of tasks 3 and 4 on programs of a and b
\* ------------------------------------------------------------------------
WarnStmts(ln) ==
    {StInput("a", ln), StOutput("a", ln), StCall1("a", "f", "a", ln),
     StCall1("a", "f", "b", ln), StCall1("b", "f", "a", ln),
     StNest1("b", "f", "f", "a", ln), StArgSum("a", "f", "b", ln)}

\* Task 2 is not selected: execute_program never runs.
NextWarn ==
    \/ \E t \in {"3", "4"} : parse_tasks_section(TasksToks(<<t>>, line + 1))
    \/ parse_poly_section(K("POLY", line + 1))
    \/ declInput = <<>> /\ parse_poly_decl(DeclFx(line + 1))
    \/ parse_execute_section(K("EXECUTE", line + 1))
    \/ \E s \in WarnStmts(line + 1) :
          Len(execStatements) < MaxExecStmts /\ parse_statement_list_exec(s)
    \/ parse_inputs_section(InputsToks(<<"5">>, line + 1))
    \/ expect_end_of_file(K("END_OF_FILE", line))
    \/ semantic_gate
    \/ main_task3
    \/ main_task4
    \/ main_task5

SpecWarn == Init /\ [][NextWarn]_vars

\* ------------------------------------------------------------------------
\* What the program text says, read off the tokens
\* ------------------------------------------------------------------------
Count(s, v) == Cardinality({i \in 1..Len(s) : s[i] = v})
IsAscending(s) == \A i \in 1..(Len(s) - 1) : s[i] <= s[i + 1]
FirstIdx(d, tt) ==
    CHOOSE i \in 1..Len(d) : d[i].token_type = tt /\ \A j \in 1..(i - 1) : d[j].token_type # tt

\* Declarations whose name an earlier declaration has.
LaterDecls ==
    {i \in 1..Len(declInput) : \E j \in 1..(i - 1) : declInput[j][1].lexeme = declInput[i][1].lexeme}
HasDuplicate == LaterDecls # {}
\* s lists exactly the lines of the later declarations, each once per declaration.
ListsLaterDecls(s) ==
    /\ Len(s) = Cardinality(LaterDecls)
    /\ \A i \in LaterDecls :
          Count(s, declInput[i][1].line_no) =
              Cardinality({j \in LaterDecls : declInput[j][1].line_no = declInput[i][1].line_no})

\* The parameter names a declaration's text gives it, and the identifier
\* tokens of its body that are none of them.
DeclParamNames(d) ==
    IF d[2].token_type = "LPAREN"
    THEN {d[k].lexeme : k \in {k \in 3..FirstIdx(d, "RPAREN") : d[k].token_type = "ID"}}
    ELSE {"x"}
\* The lines of the body identifiers of d that are no parameters of d, one
\* per token, from token k on.
RECURSIVE ForeignFrom(_, _, _)
ForeignFrom(d, k, names) ==
    IF k > Len(d) THEN <<>>
    ELSE IF d[k].token_type = "ID" /\ d[k].lexeme \notin names
         THEN <<d[k].line_no>> \o ForeignFrom(d, k + 1, names)
         ELSE ForeignFrom(d, k + 1, names)
ForeignIds(d) == ForeignFrom(d, FirstIdx(d, "EQUAL") + 1, DeclParamNames(d))
\* The same for the declarations from the i-th on.
RECURSIVE ForeignLines(_, _)
ForeignLines(ds, i) ==
    IF i > Len(ds) THEN <<>> ELSE ForeignIds(ds[i]) \o ForeignLines(ds, i + 1)
\* s and t list the same numbers, each as often.
SameBag(s, t) == Len(s) = Len(t) /\ \A v \in Range(s) : Count(s, v) = Count(t, v)

HasFinding ==
    duplicate_decl_lines # <<>> \/ invalid_monomial_lines # <<>> \/ semantic_errors # <<>>
HasErr(label) == \E i \in 1..Len(semantic_errors) : semantic_errors[i].label = label
ErrLines(label) ==
    {semantic_errors[i].num : i \in {k \in 1..Len(semantic_errors) : semantic_errors[k].label = label}}
ParsePositions == {"tasks", "poly", "poly_decl", "stmt", "eof", "gate"}
TaskPositions == {"task2", "task4", "task5", "returned", "crashed"}

\* ------------------------------------------------------------------------
\* C1: the gate prints the label of the lowest-numbered class with a finding;
\* with classes 1 and 2 empty and an undeclared call recorded it prints
\* 'Semantic Error Code 3', whatever the order of the recorded findings.
\* ------------------------------------------------------------------------
LowestClassLabel ==
    IF duplicate_decl_lines # <<>> THEN Code1
    ELSE IF invalid_monomial_lines # <<>> THEN Code2
    ELSE IF HasErr(Code3) THEN Code3
    ELSE Code4
C1_LowestClassReported ==
    pc = "exit_semantic" => Len(out) = 1 /\ out[1].label = LowestClassLabel

\* ------------------------------------------------------------------------
\* C2: a class 3 report lists exactly the lines of the undeclared calls and a
\* class 4 report exactly the lines of the arity mismatches.
\* ------------------------------------------------------------------------
C2_CallLinesOfReportedClass ==
    pc = "exit_semantic" =>
        \A label \in {Code3, Code4} :
            out[1].label = label => Range(out[1].nums) = ErrLines(label)

\* ------------------------------------------------------------------------
\* C3: with a polynomial name declared more than once the output is the
\* 'Semantic Error Code 1' line with exactly the lines of the second and later
\* declarations, ascending, and nothing else, whatever other findings exist.
\* ------------------------------------------------------------------------
C3_DuplicateReport ==
    HasDuplicate =>
        /\ pc \notin TaskPositions
        /\ pc = "exit_semantic" =>
              /\ status = 0
              /\ Len(out) = 1
              /\ out[1].label = Code1
              /\ IsAscending(out[1].nums)
              /\ ListsLaterDecls(out[1].nums)
C3_Witness ==
    /\ pc = "exit_semantic"
    /\ HasDuplicate
    /\ invalid_monomial_lines # <<>>
    /\ semantic_errors # <<>>

\* ------------------------------------------------------------------------
\* C4: a second or later declaration of a name changes none of the name's
\* parameter list, body and first-declaration line.
\* ------------------------------------------------------------------------
C4_FirstDeclarationWins ==
    [][ /\ \A n \in DOMAIN poly_declarations : poly_declarations'[n] = poly_declarations[n]
        /\ \A n \in DOMAIN polyExprs : polyExprs'[n] = polyExprs[n]
        /\ \A n \in DOMAIN poly_decl_first_line :
              poly_decl_first_line'[n] = poly_decl_first_line[n] ]_vars

\* ------------------------------------------------------------------------
\* C5: every body identifier that is no parameter of its own declaration
\* contributes its token's line to the invalid-monomial list, parsing goes on,
\* and without a duplicate declaration the output is the 'Semantic Error
\* Code 2' line with all these lines ascending; parameters contribute nothing.
\* ------------------------------------------------------------------------
C5_InvalidMonomialReport ==
    /\ invalid_monomial_lines = ForeignLines(declInput, 1)
    /\ (ForeignLines(declInput, 1) # <<>> /\ ~HasDuplicate) =>
          /\ pc \notin TaskPositions
          /\ pc = "exit_semantic" =>
                /\ out = <<OutLine(Code2, out[1].nums)>>
                /\ IsAscending(out[1].nums)
                /\ SameBag(out[1].nums, ForeignLines(declInput, 1))
C5_Witness ==
    /\ pc = "exit_semantic"
    /\ ~HasDuplicate
    /\ Len(declInput) = 2
    /\ Len(ForeignLines(declInput, 1)) = 2
    /\ \E d \in 1..2 : DeclParamNames(declInput[d]) = {"x", "y"}

\* ------------------------------------------------------------------------
\* C6: with a semantic finding of any class the whole output is one labelled
\* line and the process ends with status 0 before any task runs.
\* ------------------------------------------------------------------------
C6_OneLineThenExit ==
    (HasFinding /\ pc \notin ParsePositions /\ pc # "exit_syntax") =>
        /\ pc = "exit_semantic"
        /\ status = 0
        /\ Len(out) = 1
        /\ out[1].label \in {Code1, Code2, Code3, Code4}
C6_Witness ==
    /\ pc = "exit_semantic"
    /\ runTask2 /\ runTask3 /\ runTask4 /\ runTask5
    /\ semantic_errors # <<>>
    /\ duplicate_decl_lines = <<>> /\ invalid_monomial_lines = <<>>

\* ------------------------------------------------------------------------
\* C7: a grammar violation anywhere leaves the syntax-error line as the only
\* output, with status 1, also after findings were recorded; nothing is
\* printed before the end of file has been read.
\* ------------------------------------------------------------------------
C7_SyntaxErrorOnly ==
    /\ pc = "exit_syntax" => out = <<SyntaxErrorLine>> /\ status = 1
    /\ (~eofSeen /\ pc # "exit_syntax") => out = <<>> /\ status = -1
    /\ pc \in TaskPositions \cup {"exit_semantic"} => eofSeen
C7_Witness ==
    /\ pc = "exit_syntax"
    /\ duplicate_decl_lines # <<>>
    /\ invalid_monomial_lines # <<>>
    /\ semantic_errors # <<>>
    /\ execInputs # <<>>
    /\ ~eofSeen

\* ------------------------------------------------------------------------
\* C8: the output of a run is determined by the set of the listed task
\* numbers, whatever their order and repetitions, and the selected tasks print
\* in the order task 2 (Output values), task 3 (warning line), task 4 (warning
\* line), task 5 (degree lines).
\* ------------------------------------------------------------------------
\* The task numbers the TASKS section lists.
TaskSet == {atoi(taskInput[i].lexeme) : i \in 2..Len(taskInput)}

\* The lines the Output statements of stmts print from statement i on, when
\* the INPUTS list has a value for every Input statement.
RECURSIVE RunOutputs(_, _, _, _, _)
RunOutputs(stmts, i, table, m, idx) ==
    IF i > Len(stmts) THEN <<>>
    ELSE IF stmts[i].type = "INPUT_STMT" THEN
        RunOutputs(stmts, i + 1, EnsureSlot(table, stmts[i].var),
                   [m EXCEPT ![EnsureSlot(table, stmts[i].var)[stmts[i].var]] =
                                  execInputs[idx + 1]],
                   idx + 1)
    ELSE IF stmts[i].type = "OUTPUT_STMT" THEN
        <<OutLine("", <<m[EnsureSlot(table, stmts[i].var)[stmts[i].var]]>>)>>
            \o RunOutputs(stmts, i + 1, EnsureSlot(table, stmts[i].var), m, idx)
    ELSE
        RunOutputs(stmts, i + 1, EnsureSlot(table, stmts[i].var),
                   [m EXCEPT ![EnsureSlot(table, stmts[i].var)[stmts[i].var]] =
                       evaluate(stmts[i].rhs,
                                AssignEnv(EnsureSlot(table, stmts[i].var), m))],
                   idx)

\* The output of a run that selects the tasks of S, task by task.
OutputOfTasks(S) ==
    (IF 2 \in S
     THEN RunOutputs(execStatements, 1, EmptyMap, [i \in 0..(MemSize - 1) |-> 0], 0)
     ELSE <<>>)
    \o (IF 3 \in S THEN checkUninitializedWarnings(execStatements) ELSE <<>>)
    \o (IF 4 \in S THEN checkUselessAssignments(execStatements) ELSE <<>>)
    \o (IF 5 \in S THEN outputPolynomialDegrees(poly_decl_first_line, polyExprs) ELSE <<>>)

C8_TaskSetDeterminesOutput ==
    /\ taskInput # <<>> =>
          /\ runTask2 = (2 \in TaskSet) /\ runTask3 = (3 \in TaskSet)
          /\ runTask4 = (4 \in TaskSet) /\ runTask5 = (5 \in TaskSet)
    /\ pc = "returned" => out = OutputOfTasks(TaskSet) /\ status = 0
C8_Witness ==
    /\ pc = "returned"
    /\ Len(taskInput) = 3
    /\ atoi(taskInput[2].lexeme) > atoi(taskInput[3].lexeme)
    /\ Len(out) >= 2
    /\ out[1].label = ""
    /\ out[Len(out)].label # ""

\* ------------------------------------------------------------------------
\* C9: the cursor is the number of Input statements executed so far, and the
\* k-th executed Input statement leaves the k-th value of the INPUTS list in
\* the slot of its variable; Output and Assign statements leave the cursor.
\* ------------------------------------------------------------------------
InputsExecuted ==
    Cardinality({i \in 1..ip : execStatements[i].type = "INPUT_STMT"})

C9_InputCursor ==
    /\ nextInputIndex = InputsExecuted
    /\ (ip >= 1 /\ execStatements[ip].type = "INPUT_STMT"
           /\ nextInputIndex <= Len(execInputs)) =>
          mem[execSymbolTable[execStatements[ip].var]] = execInputs[nextInputIndex]
C9_Witness ==
    /\ ip = 3
    /\ execStatements[1] = InputStmt("b")
    /\ execStatements[2].type = "ASSIGN_STMT"
    /\ execStatements[3] = InputStmt("a")
    /\ nextInputIndex = 2
    /\ Len(execInputs) = 2
    /\ mem[execSymbolTable["a"]] = 6

\* ------------------------------------------------------------------------
\* C10: an assignment stores the value of the callee body with the values the
\* argument variables have in the caller put for the parameters by position;
\* the value is the same whatever the other caller variables hold; and, for
\* f(x) = x + 1, INPUT a; b = f(a); OUTPUT b; prints the input value plus one.
\* ------------------------------------------------------------------------
\* The body e with the argument values put for the parameters.
RECURSIVE Subst(_, _, _)
Subst(e, params, argv) ==
    CASE e.type = "VAR_EXPR" ->
            ConstExpr(IF \E k \in 1..Len(params) : params[k] = e.name /\ k <= Len(argv)
                      THEN argv[CHOOSE k \in 1..Len(params) : params[k] = e.name]
                      ELSE 0)
      [] e.type = "ADD_EXPR" -> AddExpr(Subst(e.left, params, argv), Subst(e.right, params, argv))
      [] e.type = "SUB_EXPR" -> SubExpr(Subst(e.left, params, argv), Subst(e.right, params, argv))
      [] e.type = "MUL_EXPR" -> MulExpr(Subst(e.left, params, argv), Subst(e.right, params, argv))
      [] e.type = "POW_EXPR" -> PowExpr(Subst(e.base, params, argv), e.exponent)
      [] OTHER -> e

\* The value a variable has in the caller when the statement assigning to
\* target runs.
CallerValue(n, target) ==
    IF n \in DOMAIN execSymbolTable THEN mem[execSymbolTable[n]]
    ELSE IF n = target THEN mem[Cardinality(DOMAIN execSymbolTable)]
    ELSE 0

\* The program INPUT a; b = f(a); OUTPUT b; under f(x) = x + 1 and task 2.
IsRoundTripProgram ==
    /\ runTask2
    /\ declInput # <<>>
    /\ declInput[1] = DeclFx(declInput[1][1].line_no)
    /\ Len(execStatements) = 3
    /\ execStatements[1] = InputStmt("a")
    /\ execStatements[2].type = "ASSIGN_STMT"
    /\ execStatements[2].var = "b"
    /\ execStatements[2].rhs.polyName = "f"
    /\ execStatements[3] = OutputStmt("b")
    /\ execInputs # <<>>

AssignStoresCallValue ==
    (pc = "task2" /\ ip' = ip + 1 /\ execStatements[ip + 1].type = "ASSIGN_STMT") =>
        LET s == execStatements[ip + 1]
            call == s.rhs
            argv == [i \in 1..Len(call.args) |-> CallerValue(call.args[i].name, s.var)]
            env == AssignEnv(execSymbolTable', mem)
            others == DOMAIN env \ {call.args[i].name : i \in 1..Len(call.args)}
        IN  /\ mem'[execSymbolTable'[s.var]] =
                   evaluate(Subst(polyExprs[call.polyName],
                                  poly_declarations[call.polyName], argv), EmptyMap)
            /\ \A n \in others : \A v \in {0, 7} :
                   evaluate(call, [env EXCEPT ![n] = v]) = mem'[execSymbolTable'[s.var]]

C10_CallBindsByPosition ==
    [][ /\ AssignStoresCallValue
        /\ (pc' = "returned" /\ IsRoundTripProgram) =>
               out' = <<OutLine("", <<WrapInt(execInputs[1] + 1)>>)>> ]_vars
C10_Witness ==
    /\ pc = "returned"
    /\ IsRoundTripProgram
    /\ execInputs[1] = 5
    /\ out = <<OutLine("", <<6>>)>>

\* ------------------------------------------------------------------------
\* C11: the degree printed for a polynomial is 0 for a constant, 1 for a
\* variable, the larger side for a sum or difference, the sum of the sides for
\* a product, the degree of the base times the exponent for a power and 0 for
\* a call; (x+1)(x-1) has degree 2, x^3 degree 3, 2 and x^0 degree 0.
\* ------------------------------------------------------------------------
\* The body of a declaration n = body; as <<token type, lexeme>> pairs.
BodyOf(d) == [k \in 1..(Len(d) - 3) |-> <<d[k + 2].token_type, d[k + 2].lexeme>>]

RECURSIVE Degree(_)
Degree(e) ==
    IF e.type = "CONST_EXPR" THEN 0
    ELSE IF e.type = "VAR_EXPR" THEN 1
    ELSE IF e.type \in {"ADD_EXPR", "SUB_EXPR"}
    THEN (IF Degree(e.left) >= Degree(e.right) THEN Degree(e.left) ELSE Degree(e.right))
    ELSE IF e.type = "MUL_EXPR" THEN Degree(e.left) + Degree(e.right)
    ELSE IF e.type = "POW_EXPR" THEN Degree(e.base) * e.exponent
    ELSE 0

C11_DegreeIsRecursiveDefinition ==
    LET DegreeLines == SelectSeq(out, LAMBDA l : l.label # "")
        \* The degrees the claim names for the bodies it names.
        NamedDegree(body) ==
            CASE body = Body("(x+1)(x-1)") -> {2}
              [] body = Body("x^3") -> {3}
              [] body = Body("2") -> {0}
              [] body = Body("x^0") -> {0}
              [] OTHER -> 0..IntMax
    IN  (pc = "returned" /\ runTask5) =>
            /\ Len(DegreeLines) = Len(declInput)
            /\ \A i \in 1..Len(declInput) :
                  /\ DegreeLines[i] =
                         OutLine(declInput[i][1].lexeme \o ":",
                                 <<Degree(polyExprs[declInput[i][1].lexeme])>>)
                  /\ DegreeLines[i].nums[1] \in NamedDegree(BodyOf(declInput[i]))
C11_Witness ==
    /\ pc = "returned"
    /\ Len(declInput) = 2
    /\ BodyOf(declInput[1]) = Body("(x+1)(x-1)")
    /\ BodyOf(declInput[2]) = Body("x^3")
    /\ SelectSeq(out, LAMBDA l : l.label # "") = <<OutLine("f:", <<2>>), OutLine("g:", <<3>>)>>

\* ------------------------------------------------------------------------
\* C14: in a body a op b op c, a leading subtraction takes all to its right
\* as its right operand and additions group to the left: a - b - c is
\* Sub(a, Sub(b, c)), a + b + c is Add(Add(a, b), c); f = x - 1 - 1 gives x.
\* ------------------------------------------------------------------------
C14_SubtractionTakesTheRest ==
    LET Atom(t) ==
            IF t.token_type = "NUM" THEN ConstExpr(atoi(t.lexeme))
            ELSE VarExpr(t.lexeme, t.line_no)
        OpNode(op, l, r) == IF op = "PLUS" THEN AddExpr(l, r) ELSE SubExpr(l, r)
        \* d is n = a op b op c; with atoms a, b, c
        IsThreeAtoms(d) ==
            /\ Len(d) = 8
            /\ \A k \in {3, 5, 7} : d[k].token_type \in {"NUM", "ID"}
            /\ \A k \in {4, 6} : d[k].token_type \in {"PLUS", "MINUS"}
        ThreeAtomsTree(d) ==
            IF d[4].token_type = "MINUS"
            THEN SubExpr(Atom(d[3]), OpNode(d[6].token_type, Atom(d[5]), Atom(d[7])))
            ELSE OpNode(d[6].token_type, AddExpr(Atom(d[3]), Atom(d[5])), Atom(d[7]))
    IN  /\ \A i \in 1..Len(declInput) :
              IsThreeAtoms(declInput[i]) =>
                  polyExprs[declInput[i][1].lexeme] = ThreeAtomsTree(declInput[i])
        /\ (pc = "returned" /\ BodyOf(declInput[1]) = Body("x-1-1")) =>
              out[1] = OutLine("", <<execInputs[1]>>)
C14_Witness ==
    /\ pc = "returned"
    /\ BodyOf(declInput[1]) = Body("x-1-1")
    /\ polyExprs["f"] = SubExpr(VarExpr("x", 3), SubExpr(ConstExpr(1), ConstExpr(1)))
    /\ execInputs = <<3>>
    /\ out[1] = OutLine("", <<3>>)

\* ------------------------------------------------------------------------
\* C15: a numeral followed by '^' NUM is a factor: the declaration f = 2^3;
\* is accepted and its body is Pow(2, 3).
\* ------------------------------------------------------------------------
C15_NumeralPowerAccepted ==
    (/\ Len(lastInput) >= 4
     /\ lastInput[1].token_type = "ID"
     /\ lastInput[2].token_type = "EQUAL"
     /\ BodyOf(lastInput) = Body("2^3")) =>
        /\ pc # "exit_syntax"
        /\ lastInput[1].lexeme \in DOMAIN polyExprs
        /\ polyExprs[lastInput[1].lexeme] = PowExpr(ConstExpr(2), 3)

\* ------------------------------------------------------------------------
\* C17: the line list the semantic gate prints has no line number twice.
\* ------------------------------------------------------------------------
C17_NoRepeatedLine ==
    pc = "exit_semantic" =>
        \A i, j \in 1..Len(out[1].nums) : i # j => out[1].nums[i] # out[1].nums[j]

\* ------------------------------------------------------------------------
\* C12: the 'Warning Code 1' line lists, ascending, the line of every
\* variable occurrence in the right-hand side of an assignment (nested call
\* arguments included) whose name is the target of no earlier Input or Assign;
\* a = f(a) with a not yet initialized is warned; Output never is.
\* ------------------------------------------------------------------------
\* The variable occurrences of an expression, left to right.
RECURSIVE VarOccs(_)
VarOccs(e) ==
    LET RECURSIVE OfArgs(_, _)
        OfArgs(args, i) ==
            IF i > Len(args) THEN <<>> ELSE VarOccs(args[i]) \o OfArgs(args, i + 1)
    IN  IF e.type = "VAR_EXPR" THEN <<e>>
        ELSE IF e.type = "CALL_EXPR" THEN OfArgs(e.args, 1)
        ELSE IF e.type \in {"ADD_EXPR", "SUB_EXPR", "MUL_EXPR"}
        THEN VarOccs(e.left) \o VarOccs(e.right)
        ELSE IF e.type = "POW_EXPR" THEN VarOccs(e.base)
        ELSE <<>>

C12_UninitializedWarnings ==
    LET \* The targets of the Input and Assign statements before the i-th.
        InitBefore(stmts, i) ==
            {stmts[j].var :
                j \in {k \in 1..(i - 1) : stmts[k].type \in {"INPUT_STMT", "ASSIGN_STMT"}}}
        UninitOccs(stmts, i) ==
            IF stmts[i].type # "ASSIGN_STMT" THEN <<>>
            ELSE SelectSeq(VarOccs(stmts[i].rhs),
                           LAMBDA o : o.name \notin InitBefore(stmts, i))
        RECURSIVE UninitLines(_, _)
        UninitLines(stmts, i) ==
            IF i > Len(stmts) THEN <<>>
            ELSE [k \in 1..Len(UninitOccs(stmts, i)) |-> UninitOccs(stmts, i)[k].line_no]
                     \o UninitLines(stmts, i + 1)
    IN  (pc = "returned" /\ runTask3) =>
            IF UninitLines(execStatements, 1) = <<>> THEN out = <<>>
            ELSE /\ Len(out) = 1
                 /\ out[1].label = "Warning Code 1:"
                 /\ IsAscending(out[1].nums)
                 /\ SameBag(out[1].nums, UninitLines(execStatements, 1))
C12_Witness ==
    /\ pc = "returned"
    /\ runTask3
    /\ Len(execStatements) = 3
    /\ execStatements[1].var = "b"
    /\ execStatements[1].rhs.args[1].type = "CALL_EXPR"
    /\ execStatements[2].var = "a"
    /\ execStatements[2].type = "ASSIGN_STMT"
    /\ execStatements[2].rhs.args[1].name = "a"
    /\ execStatements[3].type = "ASSIGN_STMT"
    /\ out = <<OutLine("Warning Code 1:", <<5, 6>>)>>

\* ------------------------------------------------------------------------
\* C13: an assignment to v is useless unless the first later statement that
\* is an Output of v, an Input of v, an Assign to v or an Assign to another
\* variable reading v is an Output, or an Assign whose right-hand side reads
\* v; the 'Warning Code 2' line lists exactly the useless assignments' lines,
\* ascending; a = ..; a = ..; OUTPUT a; reports the first line only.
\* ------------------------------------------------------------------------
C13_UselessAssignments ==
    LET Reads(e, v) == \E k \in 1..Len(VarOccs(e)) : VarOccs(e)[k].name = v
        Deciders(stmts, i) ==
            {j \in (i + 1)..Len(stmts) :
                \/ stmts[j].var = stmts[i].var
                \/ stmts[j].type = "ASSIGN_STMT" /\ Reads(stmts[j].rhs, stmts[i].var)}
        IsUseless(stmts, i) ==
            \/ Deciders(stmts, i) = {}
            \/ LET j == CHOOSE k \in Deciders(stmts, i) :
                             \A m \in Deciders(stmts, i) : k <= m
               IN  ~ \/ stmts[j].type = "OUTPUT_STMT"
                     \/ stmts[j].type = "ASSIGN_STMT" /\ Reads(stmts[j].rhs, stmts[i].var)
        UselessAssigns(stmts) ==
            {i \in 1..Len(stmts) : stmts[i].type = "ASSIGN_STMT" /\ IsUseless(stmts, i)}
    IN  (pc = "returned" /\ runTask4) =>
            IF UselessAssigns(execStatements) = {} THEN out = <<>>
            ELSE /\ Len(out) = 1
                 /\ out[1].label = "Warning Code 2:"
                 /\ IsAscending(out[1].nums)
                 /\ Len(out[1].nums) = Cardinality(UselessAssigns(execStatements))
                 /\ Range(out[1].nums) =
                        {execStatements[i].line_no : i \in UselessAssigns(execStatements)}
C13_Witness ==
    /\ pc = "returned"
    /\ runTask4
    /\ Len(execStatements) = 3
    /\ execStatements[1].type = "ASSIGN_STMT" /\ execStatements[1].var = "a"
    /\ execStatements[2].type = "ASSIGN_STMT" /\ execStatements[2].var = "a"
    /\ execStatements[2].rhs.args[1].name = "b"
    /\ execStatements[3] = OutputStmt("a")
    /\ out = <<OutLine("Warning Code 2:", <<5>>)>>

\* ------------------------------------------------------------------------
\* C16: an argument of a call may be a sum: the statement a = f(b + 1); is
\* accepted and its argument is Add(Var b, Const 1).
\* ------------------------------------------------------------------------
C16_ArgumentSumAccepted ==
    (/\ Len(lastInput) = 9
     /\ [k \in 1..9 |-> lastInput[k].token_type] =
            <<"ID", "EQUAL", "ID", "LPAREN", "ID", "PLUS", "NUM", "RPAREN", "SEMICOLON">>) =>
        /\ pc # "exit_syntax"
        /\ execStatements # <<>>
        /\ execStatements[Len(execStatements)].rhs.args =
               <<AddExpr(VarExpr(lastInput[5].lexeme, lastInput[5].line_no),
                         ConstExpr(atoi(lastInput[7].lexeme)))>>

\* ------------------------------------------------------------------------
\* C18: an Assign gives its target a slot if it has none, stores in it the
\* value of the right-hand side where every variable reads as the value its
\* slot holds, or 0 without a slot (the target as its previous value, or 0
\* when just allocated), changes no other cell and allocates no other slot.
\* ------------------------------------------------------------------------
AssignStepEffect ==
    (pc = "task2" /\ ip' = ip + 1 /\ execStatements[ip + 1].type = "ASSIGN_STMT") =>
        LET s == execStatements[ip + 1]
            slot == IF s.var \in DOMAIN execSymbolTable THEN execSymbolTable[s.var]
                    ELSE Cardinality(DOMAIN execSymbolTable)
            \* The names the right-hand side reads, and what each reads as.
            names == {VarOccs(s.rhs)[k].name : k \in 1..Len(VarOccs(s.rhs))}
            PriorValue(n) ==
                IF n \in DOMAIN execSymbolTable THEN mem[execSymbolTable[n]] ELSE 0
        IN  /\ DOMAIN execSymbolTable' = DOMAIN execSymbolTable \cup {s.var}
            /\ \A n \in DOMAIN execSymbolTable : execSymbolTable'[n] = execSymbolTable[n]
            /\ execSymbolTable'[s.var] = slot
            /\ mem'[slot] = evaluate(s.rhs, [n \in names |-> PriorValue(n)])
            /\ \A k \in (0..(MemSize - 1)) \ {slot} : mem'[k] = mem[k]

C18_AssignSemantics == [][AssignStepEffect]_vars
C18_Witness ==
    /\ ip = 2
    /\ execStatements[1] = InputStmt("b")
    /\ execStatements[2].type = "ASSIGN_STMT"
    /\ execStatements[2].rhs.polyName = "g"
    /\ execInputs[1] = 5
    /\ DOMAIN execSymbolTable = {"b"}
    /\ mem[execSymbolTable["b"]] = 0 - 5

\* ------------------------------------------------------------------------
\* C19: after any prefix of the executed statements the symbol table maps the
\* n distinct targets executed so far onto 0..n-1 in the order of their first
\* execution, and every memory cell from n on holds 0.
\* ------------------------------------------------------------------------
\* The distinct targets of the first k statements, in order of first occurrence.
RECURSIVE FirstRefs(_, _)
FirstRefs(stmts, k) ==
    IF k = 0 THEN <<>>
    ELSE IF stmts[k].var \in Range(FirstRefs(stmts, k - 1))
         THEN FirstRefs(stmts, k - 1)
         ELSE Append(FirstRefs(stmts, k - 1), stmts[k].var)

C19_SlotsInFirstUseOrder ==
    pc # "crashed" =>
        /\ DOMAIN execSymbolTable = Range(FirstRefs(execStatements, ip))
        /\ \A i \in 1..Len(FirstRefs(execStatements, ip)) :
              execSymbolTable[FirstRefs(execStatements, ip)[i]] = i - 1
        /\ \A k \in Len(FirstRefs(execStatements, ip))..(MemSize - 1) : mem[k] = 0
C19_Witness ==
    /\ ip = 3
    /\ execStatements[1] = OutputStmt("b")
    /\ execStatements[2] = InputStmt("a")
    /\ execStatements[3].type = "ASSIGN_STMT"
    /\ execSymbolTable["b"] = 0
    /\ execSymbolTable["a"] = 1
    /\ mem[1] = 5
    /\ mem[2] = 0

\* ------------------------------------------------------------------------
\* C20: in a run of a program that passed the checks the input cursor never
\* exceeds the number of INPUTS values: no Input statement reads past the end.
\* ------------------------------------------------------------------------
C20_NoReadPastEnd ==
    /\ nextInputIndex <= Len(execInputs)
    /\ pc # "crashed"

\* ------------------------------------------------------------------------
\* C21: a declaration without a parenthesized parameter list has the one
\* parameter x: reading it leaves <<"x">> as the parameter list of its name
\* and records the line of every body identifier other than x, and of x none;
\* reading a statement records an arity mismatch for a call of a name
\* declared only without a list exactly when the call has not one argument.
\* ------------------------------------------------------------------------
C21_ImplicitParameterX ==
    [][ LET toks == lastInput'
            \* The lines of the identifiers other than x from token k on.
            RECURSIVE OtherIds(_, _)
            OtherIds(d, k) ==
                IF k > Len(d) THEN <<>>
                ELSE IF d[k].token_type = "ID" /\ d[k].lexeme # "x"
                     THEN <<d[k].line_no>> \o OtherIds(d, k + 1)
                     ELSE OtherIds(d, k + 1)
            \* n is declared, and never with a parameter list.
            Implicit(n) ==
                /\ \E i \in 1..Len(declInput) : declInput[i][1].lexeme = n
                /\ \A i \in 1..Len(declInput) :
                      declInput[i][1].lexeme = n => declInput[i][2].token_type = "EQUAL"
            \* The calls of a statement, by the position of their name, and
            \* the commas of the argument list that starts at p.
            Calls(d) ==
                {k \in 1..(Len(d) - 1) :
                    d[k].token_type = "ID" /\ d[k + 1].token_type = "LPAREN"}
            RECURSIVE Commas(_, _, _)
            Commas(d, p, depth) ==
                IF d[p].token_type = "RPAREN"
                THEN (IF depth = 0 THEN 0 ELSE Commas(d, p + 1, depth - 1))
                ELSE IF d[p].token_type = "LPAREN" THEN Commas(d, p + 1, depth + 1)
                ELSE IF d[p].token_type = "COMMA" /\ depth = 0
                     THEN 1 + Commas(d, p + 1, depth)
                     ELSE Commas(d, p + 1, depth)
            Expected(n) == IF Implicit(n) THEN 1 ELSE Len(poly_declarations[n])
            Mismatches(d, ln) ==
                {k \in Calls(d) :
                    /\ d[k].line_no = ln
                    /\ d[k].lexeme \in DOMAIN poly_declarations
                    /\ 1 + Commas(d, k + 2, 0) # Expected(d[k].lexeme)}
            Recorded(ln) ==
                {i \in (Len(semantic_errors) + 1)..Len(semantic_errors') :
                    semantic_errors'[i] = SemErr(Code4, ln)}
        IN  /\ (Len(declInput') = Len(declInput) + 1 /\ toks[2].token_type = "EQUAL") =>
                  /\ current_poly_params' = <<"x">>
                  /\ poly_declarations'[toks[1].lexeme] = <<"x">>
                  /\ invalid_monomial_lines' = invalid_monomial_lines \o OtherIds(toks, 3)
            /\ Len(execStatements') = Len(execStatements) + 1 =>
                  \A k \in Calls(toks) :
                      Implicit(toks[k].lexeme) =>
                          Cardinality(Recorded(toks[k].line_no)) =
                              Cardinality(Mismatches(toks, toks[k].line_no)) ]_vars
\* g = y + x z; was read, and of b = g(a, a); and b = g(f(a, 1, 2)); only
\* the first is recorded as an arity mismatch on the line of its call of g.
C21_Witness ==
    /\ Len(declInput) = 1
    /\ declInput[1][1].lexeme = "g"
    /\ declInput[1][2].token_type = "EQUAL"
    /\ poly_declarations["g"] = <<"x">>
    /\ Len(invalid_monomial_lines) = 2
    /\ Len(execStatements) = 2
    /\ \A i \in 1..2 : execStatements[i].type = "ASSIGN_STMT"
    /\ Len(execStatements[1].rhs.args) = 2
    /\ execStatements[2].rhs.polyName = "g"
    /\ Len(execStatements[2].rhs.args) = 1
    /\ semantic_errors # <<>>
    /\ semantic_errors[1] = SemErr(Code4, execStatements[1].line_no)
    /\ \A i \in 1..Len(semantic_errors) :
          semantic_errors[i] # SemErr(Code4, execStatements[2].line_no)

====
